---- MODULE Spec2Model ----
(***************************************************************************)
(* Model of the tk event and image facades (src/tk/event.go,               *)
(* src/tk/image.go).  Go strings are sequences of one-character strings,   *)
(* so that prefix, suffix and digit tests are computed as the code         *)
(* computes them.                                                          *)
(***************************************************************************)
EXTENDS Integers, Sequences, FiniteSets, TLC

VARIABLES
    pargs,      \* Event.parser: the argument array of the last parse (<<>>: none yet)
    pev,        \* Event.parser: the Event struct the parser writes into
    kmod,       \* KeyModifier: a mask value
    kops,       \* KeyModifier: the flags or-ed into kmod, in order
    kstr,       \* KeyModifier: what kmod.String() returned
    photos,     \* image: the interpreter's photo objects, by id
    imageSeq,   \* image: the number of ids MakeImageId has generated
    icall,      \* image: the last LoadImage call, its result and what it did
    bindSeq,    \* event: the number of ids makeBindEventId has generated
    actions,    \* event: the interpreter's action registry, by id
    evs,        \* event: the Event struct each action's closure captured (var ev)
    kes,        \* event: the KeyModifier of each BindKeyEventEx call's KeyEvent (var ke)
    bindings,   \* event: the interpreter's bind scripts, by <<tag, event>>
    virtuals,   \* event: the interpreter's virtual-event table
    bcall       \* event: the last operation, its result and what it did

pvars == <<pargs, pev>>
kvars == <<kmod, kops, kstr>>
ivars == <<photos, imageSeq, icall>>
bvars == <<bindSeq, actions, evs, kes, bindings, virtuals, bcall>>
vars  == <<pvars, kvars, ivars, bvars>>

----------------------------------------------------------------------------
(* Bounds *)

\* Width of Go's int (strconv.IntSize), scaled down from 64 so that the
\* limits of the range are reachable with short digit strings.
IntSize == 8

\* KeyModifier masks range over 0..MaxMask; one bit lies beyond KeyModifierFn.
MaxMask == 127

\* Number of flags or-ed into one mask.
MaxCompose == 2

\* Number of image ids MakeImageId generates.
MaxImages == 1

\* Number of actions the interpreter registers (ids makeBindEventId generates).
MaxActions == 2

----------------------------------------------------------------------------
(* strings *)

HasPrefix(s, prefix) ==
    /\ Len(s) >= Len(prefix)
    /\ SubSeq(s, 1, Len(prefix)) = prefix

HasSuffix(s, suffix) ==
    /\ Len(s) >= Len(suffix)
    /\ SubSeq(s, Len(s) - Len(suffix) + 1, Len(s)) = suffix

RECURSIVE Pow2(_)
Pow2(n) == IF n = 0 THEN 1 ELSE 2 * Pow2(n - 1)

DigitChars == <<"0", "1", "2", "3", "4", "5", "6", "7", "8", "9">>

IsDigit(c) == \E i \in 1..10 : DigitChars[i] = c

DigitVal(c) == (CHOOSE i \in 1..10 : DigitChars[i] = c) - 1

----------------------------------------------------------------------------
(* strconv.ParseInt(s, 10, 0), as called by Event.toInt and Event.toInt64 *)

MaxUintVal == Pow2(IntSize) - 1
IntCutoff  == Pow2(IntSize - 1)

\* ParseUint's digit loop: n is the value accumulated so far.  The result is
\* <<value, err>> with err one of "nil", "syntax", "range".
RECURSIVE ParseUintLoop(_, _)
ParseUintLoop(s, n) ==
    IF s = <<>> THEN <<n, "nil">>
    ELSE IF ~IsDigit(Head(s)) THEN <<0, "syntax">>
    ELSE IF n >= (MaxUintVal \div 10) + 1 THEN <<MaxUintVal, "range">>
    ELSE LET n1 == n * 10 + DigitVal(Head(s))
         IN  IF n1 > MaxUintVal THEN <<MaxUintVal, "range">>
             ELSE ParseUintLoop(Tail(s), n1)

ParseUint(s) ==
    IF s = <<>> THEN <<0, "syntax">> ELSE ParseUintLoop(s, 0)

ParseIntZeroOnRange(s) ==
    IF s = <<>> THEN <<0, "syntax">>
    ELSE LET neg  == Head(s) = "-"
             rest == IF Head(s) \in {"+", "-"} THEN Tail(s) ELSE s
             r    == ParseUint(rest)
             un   == r[1]
         IN  IF r[2] # "nil" THEN <<0, r[2]>>
             ELSE IF ~neg /\ un >= IntCutoff THEN <<0, "range">>
             ELSE IF neg /\ un > IntCutoff THEN <<0, "range">>
             ELSE <<IF neg THEN -un ELSE un, "nil">>

ParseInt(s) ==
    IF s = <<>> THEN <<0, "syntax">>
    ELSE LET neg  == Head(s) = "-"
             rest == IF Head(s) \in {"+", "-"} THEN Tail(s) ELSE s
             r    == ParseUint(rest)
             un   == r[1]
         IN  IF r[2] = "syntax" THEN <<0, "syntax">>
             ELSE IF ~neg /\ un >= IntCutoff THEN <<IntCutoff - 1, "range">>
             ELSE IF neg /\ un > IntCutoff THEN <<-IntCutoff, "range">>
             ELSE <<IF neg THEN -un ELSE un, "nil">>

----------------------------------------------------------------------------
(* Event field conversions *)

toInt(s) == ParseInt(s)[1]

toInt64(s) == ParseInt(s)[1]

toBool(s) == s = <<"1">>

toStringKeepSentinel(s) == s

toString(s) == IF s = <<"?", "?">> THEN <<>> ELSE s

\* FindWidget: lookup by path in the registry of live widgets; nil when the
\* path names none.
Nil == <<"n", "i", "l">>

WidgetW == <<".", "w">>

WidgetRegistry == {WidgetW}

FindWidget(path) == IF path \in WidgetRegistry THEN path ELSE Nil

\* utf8.DecodeRuneInString on a non-empty string: the code point of the first
\* character; "\xff" is a byte that starts no UTF-8 sequence and decodes to
\* utf8.RuneError.
RuneError == 65533

DecodeRuneInString(s) ==
    CASE Head(s) = "a" -> 97
      [] Head(s) = "b" -> 98
      [] Head(s) = "?" -> 63
      [] Head(s) = "1" -> 49
      [] Head(s) = "S" -> 83
      [] Head(s) = "\\xff" -> RuneError
      [] OTHER -> 46  \* "."

arg(args, i) == args[i + 1]

\* The zero value of Event (var ev Event).
ZeroEvent ==
    [Type |-> 0, Synthetic |-> FALSE, Widget |-> Nil, Timestamp |-> 0,
     MouseButton |-> 0, PosX |-> 0, PosY |-> 0, GlobalPosX |-> 0,
     GlobalPosY |-> 0, WheelDelta |-> 0, KeyCode |-> 0, KeySym |-> <<>>,
     KeyText |-> <<>>, KeyRune |-> 0, UserData |-> <<>>, Focus |-> FALSE,
     Width |-> 0, Height |-> 0, Mode |-> <<>>, OverrideRedirect |-> <<>>,
     Place |-> <<>>, State |-> <<>>]

noClampTimestamp(t) == t

\* event.go 98-100
clampTimestamp(t) == IF t < 0 THEN 0 ELSE t

\* event.go 108-110: KeyRune is assigned only when KeyText is not empty.
decodeKeyRune(old, keyText) ==
    IF keyText # <<>> THEN DecodeRuneInString(keyText) ELSE old

\* Event.parser writes into the struct e it is called on.
parser(e, args) ==
    [Type             |-> toInt(arg(args, 0)),
     Synthetic        |-> toBool(arg(args, 1)),
     Widget           |-> FindWidget(arg(args, 2)),
     Timestamp        |-> clampTimestamp(toInt64(arg(args, 3))),
     MouseButton      |-> toInt(arg(args, 4)),
     PosX             |-> toInt(arg(args, 5)),
     PosY             |-> toInt(arg(args, 6)),
     WheelDelta       |-> toInt(arg(args, 7)),
     KeyCode          |-> toInt(arg(args, 8)),
     KeySym           |-> toString(arg(args, 9)),
     KeyText          |-> toString(arg(args, 10)),
     KeyRune          |-> decodeKeyRune(e.KeyRune, toString(arg(args, 10))),
     UserData         |-> toString(arg(args, 11)),
     Focus            |-> toBool(arg(args, 12)),
     Width            |-> toInt(arg(args, 13)),
     Height           |-> toInt(arg(args, 14)),
     Mode             |-> toString(arg(args, 15)),
     OverrideRedirect |-> toString(arg(args, 16)),
     Place            |-> toString(arg(args, 17)),
     State            |-> toString(arg(args, 18)),
     GlobalPosX       |-> toInt(arg(args, 19)),
     GlobalPosY       |-> toInt(arg(args, 20))]

----------------------------------------------------------------------------
(* Inputs of the parser *)

NArgs == 21

RECURSIVE Itoa(_)
Itoa(n) ==
    IF n < 10 THEN <<DigitChars[n + 1]>>
    ELSE Itoa(n \div 10) \o <<DigitChars[(n % 10) + 1]>>

QQ == <<"?", "?">>

\* Texts the interpreter may substitute: decimal numbers inside, at and
\* beyond the limits of the integer range, malformed numbers, the "??"
\* marker and plain text.
NumericTexts ==
    { <<"0">>, <<"1">>, <<"7">>, <<"0", "0", "7">>, <<"-", "5">>, <<"+", "3">>,
      <<"-", "0">>,
      Itoa(IntCutoff - 1), Itoa(IntCutoff), Itoa(MaxUintVal),
      Itoa(MaxUintVal + 1), Itoa(MaxUintVal) \o <<"9">>,
      <<"-">> \o Itoa(IntCutoff), <<"-">> \o Itoa(IntCutoff + 1),
      <<"-">> \o Itoa(MaxUintVal + 1) }

MalformedTexts ==
    { <<>>, <<"-">>, <<"+">>, <<"a">>, <<"1", "a">>, <<"-", "-", "1">>,
      <<"1", "-">>, Itoa(MaxUintVal + 1) \o <<"a">>, <<" ", "1">> }

PlainTexts ==
    { QQ, <<"?">>, <<"?", "?", "?">>, <<"?", "?", "a">>, <<>>, <<"a">>,
      <<"b", "a">>, <<"\\xff">>, <<"1">>,
      <<"S", "h", "i", "f", "t", "_", "L">> }

BoolTexts == { <<"0">>, <<"1">>, QQ, <<>>, <<"1", "1">>, <<"a">> }

WidgetTexts == { WidgetW, <<".", "x">>, QQ, <<>> }

\* The positions of the substitution template by the type of their field.
NumericPos == {0, 3, 4, 5, 6, 7, 8, 13, 14, 19, 20}
StringPos  == {9, 10, 11, 15, 16, 17, 18}
BoolPos    == {1, 12}

TextsFor(i) ==
    IF i \in NumericPos THEN NumericTexts \cup MalformedTexts \cup {QQ}
    ELSE IF i \in StringPos THEN PlainTexts
    ELSE IF i \in BoolPos THEN BoolTexts
    ELSE WidgetTexts

\* A KeyPress as the interpreter substitutes it.
KeyPressArgs ==
    << <<"2">>, <<"0">>, WidgetW, <<"1", "0", "0">>, QQ, <<"5">>, <<"6">>, QQ,
       <<"3", "8">>, <<"a">>, <<"a">>, QQ, QQ, QQ, QQ, QQ, QQ, QQ, <<"1", "6">>,
       <<"5", "0">>, <<"6", "0">> >>

\* A Configure event: every field differs from the KeyPress above.
ConfigureArgs ==
    << <<"2", "2">>, <<"1">>, <<".", "x">>, <<"9">>, <<"1">>, <<"1", "5">>,
       <<"1", "6">>, <<"-", "1">>, QQ, QQ, QQ, <<"d">>, <<"1">>, <<"6", "4">>,
       <<"4", "8">>, <<"N">>, <<"0">>, <<"P">>, <<"V">>, <<"7", "0">>,
       <<"8", "0">> >>

\* The Configure event, and every array that differs from the KeyPress in
\* one position.
ArgArrays ==
    {ConfigureArgs} \cup
    { [KeyPressArgs EXCEPT ![i + 1] = s] :
        <<i, s>> \in UNION { {i} \X TextsFor(i) : i \in 0..(NArgs - 1) } }

----------------------------------------------------------------------------
(* Specification of the parser alone: one Event struct, parsed into again  *)
(* and again                                                               *)

PInit ==
    /\ pargs = <<>>
    /\ pev = ZeroEvent

Parse(args) ==
    /\ pargs' = args
    /\ pev' = parser(pev, args)
    /\ UNCHANGED <<kvars, ivars, bvars>>

PNext == \E args \in ArgArrays : Parse(args)


----------------------------------------------------------------------------
(* What the claims about the parser speak of: the decimal reading of a     *)
(* text, stated without reference to ParseInt                              *)

Unsigned(s) == IF s # <<>> /\ Head(s) \in {"+", "-"} THEN Tail(s) ELSE s

IsNegative(s) == s # <<>> /\ Head(s) = "-"

AllDigits(s) == s # <<>> /\ \A i \in 1..Len(s) : IsDigit(s[i])

RECURSIVE Magnitude(_)
Magnitude(s) ==
    IF s = <<>> THEN 0
    ELSE 10 * Magnitude(SubSeq(s, 1, Len(s) - 1)) + DigitVal(s[Len(s)])

\* The digits a text starts with, after its sign.
RECURSIVE LeadingDigits(_)
LeadingDigits(s) ==
    IF s = <<>> \/ ~IsDigit(Head(s)) THEN <<>>
    ELSE <<Head(s)>> \o LeadingDigits(Tail(s))

IsDecimal(s) == AllDigits(Unsigned(s))

DecimalValue(s) ==
    IF IsNegative(s) THEN -Magnitude(Unsigned(s)) ELSE Magnitude(Unsigned(s))

MinInt == -Pow2(IntSize - 1)
MaxInt == Pow2(IntSize - 1) - 1

\* The text is a base-10 integer of the integer range.
ParsesAsInt(s) ==
    /\ IsDecimal(s)
    /\ MinInt <= DecimalValue(s)
    /\ DecimalValue(s) <= MaxInt

\* The digits of the text exceed the integer range: all of it is digits, or
\* the digits it starts with already exceed the unsigned range.
DigitsOutOfRange(s) ==
    \/ IsDecimal(s) /\ ~ParsesAsInt(s)
    \/ ~IsDecimal(s) /\ Magnitude(LeadingDigits(Unsigned(s))) > 2 * MaxInt + 1

NumericFieldAt(e, i) ==
    CASE i = 0  -> e.Type
      [] i = 3  -> e.Timestamp
      [] i = 4  -> e.MouseButton
      [] i = 5  -> e.PosX
      [] i = 6  -> e.PosY
      [] i = 7  -> e.WheelDelta
      [] i = 8  -> e.KeyCode
      [] i = 13 -> e.Width
      [] i = 14 -> e.Height
      [] i = 19 -> e.GlobalPosX
      [] i = 20 -> e.GlobalPosY

StringFieldAt(e, i) ==
    CASE i = 9  -> e.KeySym
      [] i = 10 -> e.KeyText
      [] i = 11 -> e.UserData
      [] i = 15 -> e.Mode
      [] i = 16 -> e.OverrideRedirect
      [] i = 17 -> e.Place
      [] i = 18 -> e.State

BoolFieldAt(e, i) == IF i = 1 THEN e.Synthetic ELSE e.Focus

Parsed == pargs # <<>>

SaturatedValue(s) ==
    IF ParsesAsInt(s) THEN DecimalValue(s)
    ELSE IF DigitsOutOfRange(s) THEN (IF IsNegative(s) THEN MinInt ELSE MaxInt)
    ELSE 0

C5_TimestampClamped ==
    Parsed =>
        /\ pev.Timestamp >= 0
        /\ ParsesAsInt(arg(pargs, 3)) =>
              pev.Timestamp =
                  IF DecimalValue(arg(pargs, 3)) < 0 THEN 0
                  ELSE DecimalValue(arg(pargs, 3))

\* A negative timestamp was parsed.
C5_Witness ==
    /\ Parsed
    /\ arg(pargs, 3) = <<"-", "5">>
    /\ pev.Timestamp = 0

\* C6: every string field is empty when its argument is exactly "??" and
\* is its argument otherwise; the numeric and boolean positions are not
\* normalized: "??" there is read as any other text that is no number and
\* is not "1".
C6_SentinelNormalized ==
    Parsed =>
        /\ \A i \in StringPos :
              StringFieldAt(pev, i) =
                  IF arg(pargs, i) = <<"?", "?">> THEN <<>> ELSE arg(pargs, i)
        /\ \A i \in NumericPos :
              arg(pargs, i) = <<"?", "?">> => NumericFieldAt(pev, i) = 0
        /\ \A i \in BoolPos :
              BoolFieldAt(pev, i) = (arg(pargs, i) = <<"1">>)

\* "??" was parsed into KeySym, and a text that only starts with "??" into
\* nothing else than itself.
C6_Witness ==
    /\ Parsed
    /\ arg(pargs, 9) = <<"?", "?">>
    /\ pev.KeySym = <<>>
    /\ arg(pargs, 10) = <<"a">>
    /\ pev.KeyText = <<"a">>

----------------------------------------------------------------------------
(* KeyModifier *)

KeyModifierNone    == 1
KeyModifierShift   == 2
KeyModifierControl == 4
KeyModifierAlt     == 8
KeyModifierMeta    == 16
KeyModifierFn      == 32

KeyModifierFlags ==
    {KeyModifierNone, KeyModifierShift, KeyModifierControl, KeyModifierAlt,
     KeyModifierMeta, KeyModifierFn}

\* Go's &, | and ^ on non-negative integers.
RECURSIVE BitAnd(_, _)
BitAnd(a, b) ==
    IF a = 0 \/ b = 0 THEN 0
    ELSE 2 * BitAnd(a \div 2, b \div 2) + (IF a % 2 = 1 /\ b % 2 = 1 THEN 1 ELSE 0)

BitOr(a, b) == a + b - BitAnd(a, b)

BitXor(a, b) == a + b - 2 * BitAnd(a, b)

\* strings.Join
RECURSIVE Join(_, _)
Join(ar, sep) ==
    IF ar = <<>> THEN ""
    ELSE IF Len(ar) = 1 THEN ar[1]
    ELSE ar[1] \o sep \o Join(Tail(ar), sep)

StringControlFirst(k) ==
    LET a1 == IF BitAnd(k, KeyModifierControl) = KeyModifierControl
              THEN <<"Control">> ELSE <<>>
        a2 == IF BitAnd(k, KeyModifierShift) = KeyModifierShift
              THEN Append(a1, "Shift") ELSE a1
        a3 == IF BitAnd(k, KeyModifierAlt) = KeyModifierAlt
              THEN Append(a2, "Alt") ELSE a2
        a4 == IF BitAnd(k, KeyModifierMeta) = KeyModifierMeta
              THEN Append(a3, "Meta") ELSE a3
    IN  Join(a4, " ")

\* KeyModifier.String
String(k) ==
    LET a1 == IF BitAnd(k, KeyModifierShift) = KeyModifierShift
              THEN <<"Shift">> ELSE <<>>
        a2 == IF BitAnd(k, KeyModifierControl) = KeyModifierControl
              THEN Append(a1, "Control") ELSE a1
        a3 == IF BitAnd(k, KeyModifierAlt) = KeyModifierAlt
              THEN Append(a2, "Alt") ELSE a2
        a4 == IF BitAnd(k, KeyModifierMeta) = KeyModifierMeta
              THEN Append(a3, "Meta") ELSE a3
    IN  Join(a4, " ")

KInit ==
    /\ kmod = 0
    /\ kops = <<>>
    /\ kstr = String(0)

\* k := KeyModifier(v)
Cast(v) ==
    /\ kmod' = v
    /\ kops' = <<>>
    /\ kstr' = String(v)
    /\ UNCHANGED <<pvars, ivars, bvars>>

\* k |= flag
OrFlag(flag) ==
    /\ Len(kops) < MaxCompose
    /\ kmod' = BitOr(kmod, flag)
    /\ kops' = Append(kops, flag)
    /\ kstr' = String(kmod')
    /\ UNCHANGED <<pvars, ivars, bvars>>

KNext ==
    \/ \E v \in 0..MaxMask : Cast(v)
    \/ \E flag \in KeyModifierFlags : OrFlag(flag)


\* The bits of a mask, by position.
HasBit(k, i) == (k \div Pow2(i)) % 2 = 1

BitSet(k) == {i \in 0..8 : HasBit(k, i)}

CanonicalNames ==
    << <<1, "Shift">>, <<2, "Control">>, <<3, "Alt">>, <<4, "Meta">> >>

RECURSIVE NamesFrom(_, _)
NamesFrom(k, i) ==
    IF i > Len(CanonicalNames) THEN ""
    ELSE LET rest == NamesFrom(k, i + 1)
         IN  IF CanonicalNames[i][1] \notin BitSet(k) THEN rest
             ELSE IF rest = "" THEN CanonicalNames[i][2]
             ELSE CanonicalNames[i][2] \o " " \o rest

\* C7: String() returns the names of exactly the set bits among Shift,
\* Control, Alt and Meta, joined by single spaces in that order, whatever
\* the order in which the mask was composed; None, Fn and higher bits name
\* nothing, and a mask with none of the four bits gives the empty string.
C7_CanonicalOrder ==
    /\ kstr = NamesFrom(kmod, 1)
    /\ BitSet(kmod) \cap {1, 2, 3, 4} = {} => kstr = ""

\* Control was or-ed in before Shift, and the string starts with Shift.
C7_Witness ==
    /\ kops = <<KeyModifierControl, KeyModifierShift>>
    /\ kmod = 6
    /\ kstr = "Shift Control"

----------------------------------------------------------------------------
(* Image facade *)

DotGif == <<".", "g", "i", "f">>

\* filepath.Ext: the suffix beginning at the final dot in the final element
\* of the path; empty if there is no dot.
RECURSIVE ExtLoop(_, _)
ExtLoop(path, i) ==
    IF i < 1 \/ path[i] = "/" THEN <<>>
    ELSE IF path[i] = "." THEN SubSeq(path, i, Len(path))
    ELSE ExtLoop(path, i - 1)

RECURSIVE ExtFirstDotLoop(_, _)
ExtFirstDotLoop(path, i) ==
    IF i > Len(path) THEN <<>>
    ELSE IF path[i] = "." THEN SubSeq(path, i, Len(path))
    ELSE ExtFirstDotLoop(path, i + 1)

ExtFirstDot(path) == ExtFirstDotLoop(path, 1)

Ext(path) == ExtLoop(path, Len(path))

\* ImageOpt values; NilOpt is a nil *ImageOpt.
NilOpt == [key |-> "nil", value |-> <<>>]

ImageOptId(id) == [key |-> "id", value |-> id]

ImageOptGamma(gamma) == [key |-> "gamma", value |-> gamma]

\* MakeImageId: the n-th generated id.
MakeImageId(n) == <<"atk_image", n>>

\* NewImage, lines 69-89: the id and the option list of the creation script.
NewImageId(options, seq) ==
    LET ids == SelectSeq(options, LAMBDA o : o.key = "id")
        iid == IF ids = <<>> THEN <<>> ELSE ids[Len(ids)].value
    IN  IF iid = <<>> THEN MakeImageId(seq + 1) ELSE iid

NewImageOptList(options) ==
    SelectSeq(options, LAMBDA o : o.key \notin {"nil", "id"})

\* The photo object that "image create photo iid optList" makes: with a
\* -file option the interpreter loads the file itself.
CreatedPhoto(optList) ==
    LET files == SelectSeq(optList, LAMBDA o : o.key = "file")
    IN  [opts   |-> optList,
         pixels |-> IF files = <<>> THEN <<"blank">>
                    ELSE <<"native", files[Len(files)].value>>]

\* LoadImage(file, options...).  fileState is what os.Open and image.Decode
\* meet at the path, evalOk whether the interpreter accepts the creation
\* script, findOk whether interp.FindPhoto finds the object afterwards.
\* icall.did lists the collaborators called, in order.
LoadImage(file, options, fileState, evalOk, findOk) ==
    /\ UNCHANGED <<pvars, kvars, bvars>>
    /\ IF file = <<>> THEN
           /\ icall' = [file |-> file, err |-> "ErrInvalid", im |-> Nil,
                        did |-> <<>>, script |-> <<>>]
           /\ UNCHANGED <<photos, imageSeq>>
       ELSE IF Ext(file) # DotGif /\ fileState = "missing" THEN
           /\ icall' = [file |-> file, err |-> "open", im |-> Nil,
                        did |-> <<"Open">>, script |-> <<>>]
           /\ UNCHANGED <<photos, imageSeq>>
       ELSE IF Ext(file) # DotGif /\ fileState = "corrupt" THEN
           /\ icall' = [file |-> file, err |-> "decode", im |-> Nil,
                        did |-> <<"Open", "Decode", "Close">>, script |-> <<>>]
           /\ UNCHANGED <<photos, imageSeq>>
       ELSE
           LET gif     == Ext(file) = DotGif
               opts    == IF gif THEN Append(options, [key |-> "file", value |-> file])
                          ELSE options
               before  == IF gif THEN <<>> ELSE <<"Open", "Decode", "Close">>
               iid     == NewImageId(opts, imageSeq)
               optList == NewImageOptList(opts)
               made    == iid = MakeImageId(imageSeq + 1)
               ok      == evalOk /\ findOk
           IN  /\ made => imageSeq < MaxImages
               /\ imageSeq' = IF made THEN imageSeq + 1 ELSE imageSeq
               /\ photos' =
                    IF ~evalOk THEN photos
                    ELSE [id \in DOMAIN photos \cup {iid} |->
                            IF id # iid THEN photos[id]
                            ELSE IF ok /\ ~gif
                                 THEN [CreatedPhoto(optList) EXCEPT
                                          !.pixels = <<"put", file>>]
                                 ELSE CreatedPhoto(optList)]
               /\ icall' =
                    [file   |-> file,
                     err    |-> IF ok THEN "nil" ELSE "NewImage failed",
                     im     |-> IF ok THEN iid ELSE Nil,
                     did    |-> before \o <<"eval">>
                                \o (IF evalOk THEN <<"FindPhoto">> ELSE <<>>)
                                \o (IF ok /\ ~gif THEN <<"PutImage">> ELSE <<>>),
                     script |-> <<iid, optList>>]

Paths ==
    { <<>>,
      <<"a", ".", "g", "i", "f">>,
      <<"a", ".", "b", ".", "g", "i", "f">>,
      <<"a", ".", "p", "n", "g">>,
      <<"a", ".", "g", "i", "f", ".", "p", "n", "g">>,
      <<"d", ".", "g", "i", "f", "/", "f">>,
      <<"a", ".", "G", "I", "F">> }

OptionLists ==
    { <<>>, <<NilOpt, ImageOptId(<<"u">>), ImageOptGamma(2)>> }

IInit ==
    /\ photos = <<>>
    /\ imageSeq = 0
    /\ icall = [file |-> <<>>, err |-> "none", im |-> Nil, did |-> <<>>,
                script |-> <<>>]

INext ==
    \E file \in Paths, options \in OptionLists,
       fileState \in {"missing", "corrupt", "image"}, evalOk, findOk \in BOOLEAN :
        LoadImage(file, options, fileState, evalOk, findOk)

\* The path ends in ".gif".
GifSuffixed(file) == HasSuffix(file, <<".", "g", "i", "f">>)

Occurs(x, seq) == \E i \in 1..Len(seq) : seq[i] = x

\* C8: LoadImage takes one of three routes.  An empty path fails with the
\* invalid-argument error, opens nothing and creates no photo object.  A
\* path ending in ".gif" is neither opened nor decoded and is passed to
\* NewImage as the -file creation option.  Any other path is opened and
\* decoded first: an open or decode failure is returned as it is and no
\* photo object is created; on success the decoded buffer is put into the
\* photo object just created.
C8_Routes ==
    [][ LET c == icall'
            untouched == photos' = photos /\ imageSeq' = imageSeq
        IN  /\ c.file = <<>> =>
                 c.err = "ErrInvalid" /\ c.did = <<>> /\ untouched
            /\ c.file # <<>> /\ GifSuffixed(c.file) =>
                 /\ ~Occurs("Open", c.did) /\ ~Occurs("Decode", c.did)
                 /\ c.did[1] = "eval"
                 /\ Occurs([key |-> "file", value |-> c.file], c.script[2])
                 /\ c.err \in {"nil", "NewImage failed"}
            /\ c.file # <<>> /\ ~GifSuffixed(c.file) =>
                 /\ c.did[1] = "Open"
                 /\ c.err \in {"open", "decode"} =>
                      ~Occurs("eval", c.did) /\ c.im = Nil /\ untouched
                 /\ c.err \notin {"open", "decode"} =>
                      SubSeq(c.did, 1, 4) = <<"Open", "Decode", "Close", "eval">>
                 /\ c.err = "nil" =>
                      /\ c.did[Len(c.did)] = "PutImage"
                      /\ c.im \in DOMAIN photos'
                      /\ photos'[c.im].pixels = <<"put", c.file>>
      ]_vars

\* A path that contains ".gif" without ending in it was decoded and put.
C8_Witness ==
    /\ icall.file = <<"a", ".", "g", "i", "f", ".", "p", "n", "g">>
    /\ icall.err = "nil"
    /\ icall.im \in DOMAIN photos
    /\ photos[icall.im].pixels = <<"put", icall.file>>

----------------------------------------------------------------------------
(* Event facade: bindings, key modifiers, virtual events, event injection *)

EvKeyPress   == <<"<", "K", "e", "y", "P", "r", "e", "s", "s", ">">>
EvKeyRelease == <<"<", "K", "e", "y", "R", "e", "l", "e", "a", "s", "e", ">">>

IsEventPrefixOnly(event) == HasPrefix(event, <<"<">>)

IsEvent(event) == HasPrefix(event, <<"<">>) /\ HasSuffix(event, <<">">>)

IsVirtualEvent(event) ==
    HasPrefix(event, <<"<", "<">>) /\ HasSuffix(event, <<">", ">">>)

\* IsValidWidget: the widget is not nil and is a live, registered widget.
IsValidWidget(widget) == widget \in WidgetRegistry

\* The scripts the facade hands to eval.
bindEventScript(tag, event, fnid) ==
    [cmd |-> "bind", tag |-> tag, event |-> event, plus |-> FALSE,
     body |-> <<fnid>>]

addEventScript(tag, event, fnid) ==
    [cmd |-> "bind", tag |-> tag, event |-> event, plus |-> TRUE,
     body |-> <<fnid>>]

clearScriptPlus(tag, event) ==
    [cmd |-> "bind", tag |-> tag, event |-> event, plus |-> TRUE,
     body |-> <<>>]

clearScript(tag, event) ==
    [cmd |-> "bind", tag |-> tag, event |-> event, plus |-> FALSE,
     body |-> <<>>]

\* The script bound to a tag and event: the ids of the actions it calls.
Bound(b, tag, event) ==
    IF <<tag, event>> \in DOMAIN b THEN b[<<tag, event>>] ELSE <<>>

\* The interpreter's bind command: a script starting with + is appended to
\* the binding, any other script replaces it, the empty one removes it.
EvalBind(b, script) ==
    LET key == <<script.tag, script.event>>
        new == IF script.plus THEN Bound(b, script.tag, script.event) \o script.body
               ELSE script.body
    IN  [k \in DOMAIN b \cup {key} |-> IF k = key THEN new ELSE b[k]]

\* The interpreter's event add / event remove.
PhysicalOf(v, virtual) == IF virtual \in DOMAIN v THEN v[virtual] ELSE {}

SeqRange(q) == {q[i] : i \in 1..Len(q)}

EvalEventAdd(v, virtual, eventList) ==
    [n \in DOMAIN v \cup {virtual} |->
        IF n = virtual THEN PhysicalOf(v, virtual) \cup SeqRange(eventList)
        ELSE v[n]]

\* A virtual event left with no sequence is no longer defined.
EvalEventRemove(v, virtual, events) ==
    LET left == IF events = <<>> THEN {}
                ELSE PhysicalOf(v, virtual) \ SeqRange(events)
    IN  [n \in (DOMAIN v \ {virtual}) \cup (IF left = {} THEN {} ELSE {virtual}) |->
            IF n = virtual THEN left ELSE v[n]]

\* KeyEvent.addModifier / removeModifier on the mask k.
addModifier(k, sym, name, mod) ==
    IF HasPrefix(sym, name) THEN BitOr(k, mod) ELSE k

removeModifierUnguarded(k, sym, name, mod) ==
    IF HasPrefix(sym, name) THEN BitXor(k, mod) ELSE k

removeModifier(k, sym, name, mod) ==
    IF HasPrefix(sym, name)
    THEN IF BitAnd(k, mod) = mod THEN BitXor(k, mod) ELSE k
    ELSE k

PrefixShift   == <<"S", "h", "i", "f", "t", "_">>
PrefixControl == <<"C", "o", "n", "t", "r", "o", "l", "_">>
PrefixAlt     == <<"A", "l", "t", "_">>
PrefixMeta    == <<"M", "e", "t", "a", "_">>
PrefixSuper   == <<"S", "u", "p", "e", "r", "_">>

\* BindKeyEventEx, lines 199-203 and 217-221.
pressModifiers(k, sym) ==
    LET k1 == addModifier(k, sym, PrefixShift, KeyModifierShift)
        k2 == addModifier(k1, sym, PrefixControl, KeyModifierControl)
        k3 == addModifier(k2, sym, PrefixAlt, KeyModifierAlt)
        k4 == addModifier(k3, sym, PrefixMeta, KeyModifierMeta)
    IN  addModifier(k4, sym, PrefixSuper, KeyModifierFn)

releaseModifiers(k, sym) ==
    LET k1 == removeModifier(k, sym, PrefixShift, KeyModifierShift)
        k2 == removeModifier(k1, sym, PrefixControl, KeyModifierControl)
        k3 == removeModifier(k2, sym, PrefixAlt, KeyModifierAlt)
        k4 == removeModifier(k3, sym, PrefixMeta, KeyModifierMeta)
    IN  removeModifier(k4, sym, PrefixSuper, KeyModifierFn)

\* One action called by the interpreter with the substituted arguments:
\* ev.parser(args), then the closure BindEvent or BindKeyEventEx made.
\* st holds the Event structs, the masks and the handlers run so far; an
\* entry of ran tells whether the user's callback was called (it is not
\* when fnPress or fnRelease is nil) and the mask it saw (-1: no KeyEvent).
RunAction(st, fnid, args) ==
    LET a  == actions[fnid]
        e  == parser(st.evs[fnid], args)
        es == [st.evs EXCEPT ![fnid] = e]
    IN  IF a.kind = "event" THEN
            [evs |-> es, kes |-> st.kes,
             ran |-> Append(st.ran, [fnid |-> fnid, called |-> TRUE, mod |-> -1])]
        ELSE IF a.kind = "press" THEN
            LET m == pressModifiers(st.kes[a.ke], e.KeySym)
            IN  [evs |-> es, kes |-> [st.kes EXCEPT ![a.ke] = m],
                 ran |-> Append(st.ran,
                            [fnid |-> fnid, called |-> a.fn, mod |-> m])]
        ELSE
            LET m == st.kes[a.ke]
            IN  [evs |-> es,
                 kes |-> [st.kes EXCEPT ![a.ke] = releaseModifiers(m, e.KeySym)],
                 ran |-> Append(st.ran,
                            [fnid |-> fnid, called |-> a.fn, mod |-> m])]

\* The interpreter runs the script bound to the tag and event.
RECURSIVE RunScript(_, _, _)
RunScript(st, fnids, args) ==
    IF fnids = <<>> THEN st
    ELSE RunScript(RunAction(st, Head(fnids), args), Tail(fnids), args)

Fire(tag, event, args) ==
    RunScript([evs |-> evs, kes |-> kes, ran |-> <<>>],
              Bound(bindings, tag, event), args)

Call(op, tag, event, ret, evals, created, args, ran) ==
    [op |-> op, tag |-> tag, event |-> event, ret |-> ret, evals |-> evals,
     created |-> created, args |-> args, ran |-> ran]

EvalResult(evalOk) == IF evalOk THEN "nil" ELSE "EvalError"

\* mainInterp.CreateAction for the n-th id.
CreateAction(acts, kind, fn, ke) ==
    Append(acts, [kind |-> kind, fn |-> fn, ke |-> ke])

BindEvent(tag, event, evalOk) ==
    /\ UNCHANGED <<pvars, kvars, ivars>>
    /\ IF tag = <<>> \/ ~IsEvent(event) THEN
           /\ bcall' = Call("BindEvent", tag, event, "ErrInvalid", 0, 0, <<>>, <<>>)
           /\ UNCHANGED <<bindSeq, actions, evs, kes, bindings, virtuals>>
       ELSE
           /\ bindSeq < MaxActions
           /\ bindSeq' = bindSeq + 1
           /\ actions' = CreateAction(actions, "event", TRUE, 0)
           /\ evs' = Append(evs, ZeroEvent)
           /\ bindings' = IF evalOk
                          THEN EvalBind(bindings, addEventScript(tag, event, bindSeq'))
                          ELSE bindings
           /\ bcall' = Call("BindEvent", tag, event, EvalResult(evalOk), 1, 1,
                            <<>>, <<>>)
           /\ UNCHANGED <<kes, virtuals>>

\* fnPress and fnRelease tell whether the callbacks are not nil.
BindKeyEventEx(tag, fnPress, fnRelease, evalOk1, evalOk2) ==
    /\ UNCHANGED <<pvars, kvars, ivars>>
    /\ IF tag = <<>> \/ ~IsEvent(EvKeyPress) THEN
           /\ bcall' = Call("BindKeyEventEx", tag, <<>>, "ErrInvalid", 0, 0,
                            <<>>, <<>>)
           /\ UNCHANGED <<bindSeq, actions, evs, kes, bindings, virtuals>>
       ELSE IF ~evalOk1 THEN
           /\ bindSeq < MaxActions
           /\ bindSeq' = bindSeq + 1
           /\ actions' = CreateAction(actions, "press", fnPress, Len(kes) + 1)
           /\ evs' = Append(evs, ZeroEvent)
           /\ kes' = Append(kes, 0)
           /\ bcall' = Call("BindKeyEventEx", tag, <<>>, "EvalError", 1, 1,
                            <<>>, <<>>)
           /\ UNCHANGED <<bindings, virtuals>>
       ELSE
           /\ bindSeq + 1 < MaxActions
           /\ bindSeq' = bindSeq + 2
           /\ actions' = CreateAction(
                             CreateAction(actions, "press", fnPress, Len(kes) + 1),
                             "release", fnRelease, Len(kes) + 1)
           /\ evs' = evs \o <<ZeroEvent, ZeroEvent>>
           /\ kes' = Append(kes, 0)
           /\ bindings' =
                LET b1 == EvalBind(bindings,
                                   addEventScript(tag, EvKeyPress, bindSeq + 1))
                IN  IF evalOk2
                    THEN EvalBind(b1, addEventScript(tag, EvKeyRelease, bindSeq + 2))
                    ELSE b1
           /\ bcall' = Call("BindKeyEventEx", tag, <<>>, EvalResult(evalOk2), 2, 2,
                            <<>>, <<>>)
           /\ UNCHANGED virtuals

ClearBindEvent(tag, event, evalOk) ==
    /\ UNCHANGED <<pvars, kvars, ivars>>
    /\ UNCHANGED <<bindSeq, actions, evs, kes, virtuals>>
    /\ IF tag = <<>> \/ ~IsEvent(event) THEN
           /\ bcall' = Call("ClearBindEvent", tag, event, "ErrInvalid", 0, 0,
                            <<>>, <<>>)
           /\ UNCHANGED bindings
       ELSE
           /\ bindings' = IF evalOk THEN EvalBind(bindings, clearScript(tag, event))
                          ELSE bindings
           /\ bcall' = Call("ClearBindEvent", tag, event, EvalResult(evalOk), 1, 0,
                            <<>>, <<>>)

\* eventList is event followed by events...
AddVirtualEventPhysicalEvent(virtual, eventList, evalOk) ==
    /\ UNCHANGED <<pvars, kvars, ivars>>
    /\ UNCHANGED <<bindSeq, actions, evs, kes, bindings>>
    /\ IF ~IsVirtualEvent(virtual) THEN
           /\ bcall' = Call("AddVirtualEventPhysicalEvent", <<>>, virtual,
                            "ErrInvalid", 0, 0, <<>>, <<>>)
           /\ UNCHANGED virtuals
       ELSE
           /\ virtuals' = IF evalOk THEN EvalEventAdd(virtuals, virtual, eventList)
                          ELSE virtuals
           /\ bcall' = Call("AddVirtualEventPhysicalEvent", <<>>, virtual,
                            EvalResult(evalOk), 1, 0, <<>>, <<>>)

RemoveVirtualEventPhysicalEvent(virtual, events, evalOk) ==
    /\ UNCHANGED <<pvars, kvars, ivars>>
    /\ UNCHANGED <<bindSeq, actions, evs, kes, bindings>>
    /\ IF ~IsVirtualEvent(virtual) THEN
           /\ bcall' = Call("RemoveVirtualEventPhysicalEvent", <<>>, virtual,
                            "ErrInvalid", 0, 0, <<>>, <<>>)
           /\ UNCHANGED virtuals
       ELSE
           /\ virtuals' = IF evalOk THEN EvalEventRemove(virtuals, virtual, events)
                          ELSE virtuals
           /\ bcall' = Call("RemoveVirtualEventPhysicalEvent", <<>>, virtual,
                            EvalResult(evalOk), 1, 0, <<>>, <<>>)

\* The key event that event generate delivers: KeyPressArgs with %E = 1.
GeneratedArgs == [KeyPressArgs EXCEPT ![2] = <<"1">>]

\* sendEvent(id, event): event generate runs the scripts bound to the
\* target and event before eval returns.
sendEvent(op, id, event, evalOk) ==
    /\ UNCHANGED <<bindSeq, actions, bindings, virtuals>>
    /\ IF ~IsEvent(event) THEN
           /\ bcall' = Call(op, id, event, "ErrInvalid", 0, 0, <<>>, <<>>)
           /\ UNCHANGED <<evs, kes>>
       ELSE IF ~evalOk THEN
           /\ bcall' = Call(op, id, event, "EvalError", 1, 0, <<>>, <<>>)
           /\ UNCHANGED <<evs, kes>>
       ELSE
           LET st == Fire(id, event, GeneratedArgs)
           IN  /\ evs' = st.evs
               /\ kes' = st.kes
               /\ bcall' = Call(op, id, event, "nil", 1, 0, GeneratedArgs, st.ran)

SendEvent(widget, event, evalOk) ==
    /\ UNCHANGED <<pvars, kvars, ivars>>
    /\ IF ~IsValidWidget(widget) THEN
           /\ bcall' = Call("SendEvent", widget, event, "ErrInvalid", 0, 0,
                            <<>>, <<>>)
           /\ UNCHANGED <<bindSeq, actions, evs, kes, bindings, virtuals>>
       ELSE sendEvent("SendEvent", widget, event, evalOk)

\* [focus] names the widget holding the input focus, WidgetW here.
SendEventToFocus(event, evalOk) ==
    /\ UNCHANGED <<pvars, kvars, ivars>>
    /\ sendEvent("SendEventToFocus", WidgetW, event, evalOk)

\* A GUI event of the interpreter's event loop on a tag.
Dispatch(tag, event, args) ==
    /\ UNCHANGED <<pvars, kvars, ivars>>
    /\ UNCHANGED <<bindSeq, actions, bindings, virtuals>>
    /\ LET st == Fire(tag, event, args)
       IN  /\ evs' = st.evs
           /\ kes' = st.kes
           /\ bcall' = Call("Dispatch", tag, event, "nil", 0, 0, args, st.ran)

Tags == {<<>>, WidgetW}

EventTexts == {EvKeyPress, EvKeyRelease, <<"K", "e", "y">>, <<"<", "K">>}

VirtualV == <<"<", "<", "V", ">", ">">>

VirtualTexts == {VirtualV, <<"<", "V", ">">>, <<"<", "<", ">">>}

Widgets == {WidgetW, Nil}

\* Key events of the event loop: a plain key, Shift_R, and a Shift_L whose
\* other fields all differ from the plain key's.
KeyDispatchArgs ==
    { KeyPressArgs,
      [KeyPressArgs EXCEPT ![10] = <<"S", "h", "i", "f", "t", "_", "R">>,
                           ![11] = QQ],
      [ConfigureArgs EXCEPT ![10] = <<"S", "h", "i", "f", "t", "_", "L">>] }

BInit ==
    /\ bindSeq = 0
    /\ actions = <<>>
    /\ evs = <<>>
    /\ kes = <<>>
    /\ bindings = <<>>
    /\ virtuals = <<>>
    /\ bcall = Call("none", <<>>, <<>>, "nil", 0, 0, <<>>, <<>>)

\* The whole facade, with one kind of key event, delivered by event
\* generate or by the event loop.
BNext ==
    \/ \E tag \in Tags, event \in EventTexts, evalOk \in BOOLEAN :
          BindEvent(tag, event, evalOk)
    \/ \E tag \in Tags, evalOk1, evalOk2 \in BOOLEAN :
          BindKeyEventEx(tag, TRUE, TRUE, evalOk1, evalOk2)
    \/ \E tag \in Tags, event \in EventTexts, evalOk \in BOOLEAN :
          ClearBindEvent(tag, event, evalOk)
    \/ \E virtual \in VirtualTexts, evalOk \in BOOLEAN :
          AddVirtualEventPhysicalEvent(virtual, <<EvKeyPress>>, evalOk)
    \/ \E virtual \in VirtualTexts, evalOk \in BOOLEAN :
          RemoveVirtualEventPhysicalEvent(virtual, <<>>, evalOk)
    \/ \E widget \in Widgets, event \in EventTexts, evalOk \in BOOLEAN :
          SendEvent(widget, event, evalOk)
    \/ \E event \in {EvKeyRelease, <<"K", "e", "y">>}, evalOk \in BOOLEAN :
          SendEventToFocus(event, evalOk)
    \/ \E event \in {EvKeyPress, EvKeyRelease} :
          Dispatch(WidgetW, event, GeneratedArgs)

\* Bindings and the key events of the event loop.
DNext ==
    \/ \E event \in {EvKeyPress, EvKeyRelease} :
          BindEvent(WidgetW, event, TRUE)
    \/ \E tag \in Tags, fn, evalOk2 \in BOOLEAN :
          BindKeyEventEx(tag, fn, fn, TRUE, evalOk2)
    \/ \E event \in {EvKeyPress, EvKeyRelease} :
          ClearBindEvent(WidgetW, event, TRUE)
    \/ \E event \in {EvKeyPress, EvKeyRelease}, args \in KeyDispatchArgs :
          Dispatch(WidgetW, event, args)

----------------------------------------------------------------------------
(* What the claims about the event facade speak of *)

\* The last operation was a firing of an event: the interpreter ran the
\* script bound to bcall.tag and bcall.event on bcall.args.
Fired(c) ==
    /\ c.op \in {"Dispatch", "SendEvent", "SendEventToFocus"}
    /\ c.ret = "nil"
    /\ c.args # <<>>

\* The ids of the actions whose callback the firing called, in order.
RECURSIVE CallbackIds(_)
CallbackIds(ran) ==
    IF ran = <<>> THEN <<>>
    ELSE (IF Head(ran).called THEN <<Head(ran).fnid>> ELSE <<>>)
         \o CallbackIds(Tail(ran))

\* The form <...> and the form <<...>>, by position.
WellFormedEvent(s) ==
    Len(s) >= 2 /\ s[1] = "<" /\ s[Len(s)] = ">"

WellFormedVirtual(s) ==
    /\ Len(s) >= 4
    /\ s[1] = "<" /\ s[2] = "<"
    /\ s[Len(s) - 1] = ">" /\ s[Len(s)] = ">"

InterpreterState == <<bindSeq, actions, evs, kes, bindings, virtuals>>

AllPairs == DOMAIN bindings \cup (Tags \X EventTexts)

\* C1 as stated: a successful BindEvent replaces the binding, so a firing
\* calls the callback of the most recent BindEvent on the tag and event,
\* once, and no other.
C1_OnlyLatestCallback ==
    (Fired(bcall) /\ Bound(bindings, bcall.tag, bcall.event) # <<>>) =>
        LET bound == Bound(bindings, bcall.tag, bcall.event)
        IN  CallbackIds(bcall.ran) = <<bound[Len(bound)]>>

\* C1, amended: a successful BindEvent(tag, event, fn) appends to the
\* binding on that tag and event and replaces nothing: it registers exactly
\* one interpreter action and adds it at the end of the script bound to the
\* pair, and one firing of the event calls the callback of every action
\* bound to the pair, each exactly once, in the order of the BindEvent calls.
C1_BindAppends ==
    [][ /\ (bcall'.op = "BindEvent" /\ bcall'.ret = "nil") =>
              /\ bindSeq' = bindSeq + 1
              /\ Len(actions') = Len(actions) + 1
              /\ Bound(bindings', bcall'.tag, bcall'.event) =
                    Append(Bound(bindings, bcall'.tag, bcall'.event), bindSeq')
        /\ Fired(bcall') =>
              CallbackIds(bcall'.ran) =
                  SelectSeq(Bound(bindings, bcall'.tag, bcall'.event),
                            LAMBDA f : actions[f].fn)
      ]_vars

\* Two BindEvent calls on one pair, and a firing that called both callbacks.
C1_Witness ==
    /\ bcall.op = "Dispatch"
    /\ Fired(bcall)
    /\ Len(actions) = 2
    /\ actions[1].kind = "event" /\ actions[2].kind = "event"
    /\ CallbackIds(bcall.ran) = <<1, 2>>

\* The operation recorded in c was given a structurally invalid argument.
StructurallyInvalid(c) ==
    \/ /\ c.op \in {"BindEvent", "ClearBindEvent"}
       /\ c.tag = <<>> \/ ~WellFormedEvent(c.event)
    \/ /\ c.op \in {"AddVirtualEventPhysicalEvent", "RemoveVirtualEventPhysicalEvent"}
       /\ ~WellFormedVirtual(c.event)
    \/ /\ c.op = "SendEvent"
       /\ c.tag \notin WidgetRegistry \/ ~WellFormedEvent(c.event)
    \/ /\ c.op = "SendEventToFocus"
       /\ ~WellFormedEvent(c.event)

\* C3: an operation given an empty tag, an event not of the form <...>, a
\* virtual name not of the form <<...>> or an invalid widget returns
\* ErrInvalid, has evaluated no script and registered no action, and leaves
\* the bindings, the virtual-event table and the action registry as they
\* were.
C3_InvalidBeforeInterpreter ==
    [][ StructurallyInvalid(bcall') =>
            /\ bcall'.ret = "ErrInvalid"
            /\ bcall'.evals = 0
            /\ bcall'.created = 0
            /\ InterpreterState' = InterpreterState
      ]_vars

\* BindEvent refused an event that only starts with "<", with a binding in
\* place.
C3_Witness ==
    /\ bcall.op = "BindEvent"
    /\ bcall.tag = WidgetW
    /\ bcall.event = <<"<", "K">>
    /\ bcall.ret = "ErrInvalid"
    /\ Bound(bindings, WidgetW, EvKeyPress) # <<>>

\* C10: a successful ClearBindEvent(tag, event) leaves the pair with an
\* empty script, removes no action from the registry and leaves every
\* other pair's binding as it was; a firing on a pair with an empty script
\* calls nothing, and a pair's script stays empty until a BindEvent (or
\* BindKeyEventEx) on its tag.
C10_ClearBindEvent ==
    [][ /\ (bcall'.op = "ClearBindEvent" /\ bcall'.ret = "nil") =>
              /\ Bound(bindings', bcall'.tag, bcall'.event) = <<>>
              /\ actions' = actions
              /\ bindSeq' = bindSeq
              /\ \A p \in AllPairs :
                    p # <<bcall'.tag, bcall'.event>> =>
                        Bound(bindings', p[1], p[2]) = Bound(bindings, p[1], p[2])
        /\ \A p \in AllPairs :
              (Bound(bindings, p[1], p[2]) = <<>> /\ Bound(bindings', p[1], p[2]) # <<>>) =>
                  \/ bcall'.op = "BindEvent" /\ bcall'.tag = p[1] /\ bcall'.event = p[2]
                  \/ bcall'.op = "BindKeyEventEx" /\ bcall'.tag = p[1]
        /\ (Fired(bcall') /\ Bound(bindings, bcall'.tag, bcall'.event) = <<>>) =>
              bcall'.ran = <<>>
      ]_vars

\* The press handler of a BindKeyEventEx call has run, its binding was
\* cleared since, a <KeyPress> fired and called nothing; the release
\* binding and both actions are still there.
C10_Witness ==
    /\ bcall.op = "Dispatch"
    /\ Fired(bcall)
    /\ bcall.event = EvKeyPress
    /\ bcall.ran = <<>>
    /\ Len(actions) = 2
    /\ actions[1].kind = "press"
    /\ evs[1] # ZeroEvent
    /\ Bound(bindings, WidgetW, EvKeyPress) = <<>>
    /\ Bound(bindings, WidgetW, EvKeyRelease) = <<2>>

ModifierFamilies ==
    { <<PrefixShift, 1>>, <<PrefixControl, 2>>, <<PrefixAlt, 3>>,
      <<PrefixMeta, 4>>, <<PrefixSuper, 5>> }

\* The handler of the given kind of the k-th BindKeyEventEx call ran in
\* the firing recorded in c.
HandlerRan(c, kind, k) ==
    /\ Fired(c)
    /\ \E i \in 1..Len(c.ran) :
          /\ actions[c.ran[i].fnid].kind = kind
          /\ actions[c.ran[i].fnid].ke = k

\* C2: for the handlers of one BindKeyEventEx call: a press of a key
\* symbol with a modifier prefix sets the modifier's bit before fnPress is
\* called; after the release handler has run on a key symbol with that
\* prefix the bit is clear; a release whose modifier bit is not set leaves
\* the mask as it is; and a set bit stays set over every other step.
C2_ModifierTracking ==
    [][ \A k \in 1..Len(kes) : \A fam \in ModifierFamilies :
          LET c        == bcall'
              bit      == fam[2]
              hasSym   == Fired(c) /\ HasPrefix(arg(c.args, 9), fam[1])
              pressed  == hasSym /\ HandlerRan(c, "press", k)
              released == hasSym /\ HandlerRan(c, "release", k)
          IN  /\ pressed =>
                    /\ HasBit(kes'[k], bit)
                    /\ \A i \in 1..Len(c.ran) :
                          (actions[c.ran[i].fnid].ke = k /\ c.ran[i].called)
                              => HasBit(c.ran[i].mod, bit)
              /\ released => ~HasBit(kes'[k], bit)
              /\ (released /\ ~HasBit(kes[k], bit)) => kes'[k] = kes[k]
              /\ (HasBit(kes[k], bit) /\ ~released) => HasBit(kes'[k], bit)
      ]_vars

\* Shift_L was pressed last, Shift_R is released: fnRelease saw the Shift
\* bit and the bit is clear afterwards.
C2_Witness ==
    /\ bcall.op = "Dispatch"
    /\ Fired(bcall)
    /\ bcall.event = EvKeyRelease
    /\ arg(bcall.args, 9) = <<"S", "h", "i", "f", "t", "_", "R">>
    /\ Len(actions) = 2
    /\ actions[1].kind = "press"
    /\ evs[1].KeySym = <<"S", "h", "i", "f", "t", "_", "L">>
    /\ bcall.ran = <<[fnid |-> 2, called |-> TRUE, mod |-> KeyModifierShift]>>
    /\ kes = <<0>>

\* C9: the Event a callback receives is a snapshot of the current
\* dispatch: every field is what the parser makes of the current arguments
\* on a fresh Event, and KeyRune is the first code point of KeyText, or
\* zero when KeyText is empty.
C9_FreshSnapshot ==
    Fired(bcall) =>
        \A i \in 1..Len(bcall.ran) :
            LET e == evs[bcall.ran[i].fnid]
            IN  /\ e = parser(ZeroEvent, bcall.args)
                /\ e.KeyRune = IF e.KeyText # <<>>
                               THEN DecodeRuneInString(e.KeyText) ELSE 0

----------------------------------------------------------------------------
(* Specifications: each facility runs alone, the others stay as constructed *)

Init == PInit /\ KInit /\ IInit /\ BInit

SpecParser == Init /\ [][PNext]_vars

SpecModifier == Init /\ [][KNext]_vars

SpecImage == Init /\ [][INext]_vars

SpecEvent == Init /\ [][BNext]_vars

SpecDispatch == Init /\ [][DNext]_vars

====
